---------------------------- MODULE Spec2Model ----------------------------
(***************************************************************************)
(* A model of the vCard codec: the VCard contact model with its validated  *)
(* setters and its renderer (escaping and byte-aware folding), and the     *)
(* VCardParser (tokenizer and field mapper).                               *)
(*                                                                         *)
(* A JavaScript string is modelled as the sequence of its UTF-16 code      *)
(* units; an ASCII unit is the one-character TLA+ string, and the units    *)
(* outside ASCII carry the names below.  A thrown exception is modelled as *)
(* a result record whose err field holds the message, together with the    *)
(* contact as the throw left it.                                           *)
(*                                                                         *)
(* A loop of the code over the indices lo..hi is an operator named         *)
(* ...Loop(..., lo, hi, state): it runs the loop body on lo, lo+1, ..., hi *)
(* in this order, handing the state from one index to the next; it halves  *)
(* the range only to keep the evaluation shallow.                          *)
(***************************************************************************)
EXTENDS Integers, Sequences, FiniteSets, TLC

(***************************************************************************)
(* Strings                                                                 *)
(***************************************************************************)

\* The code units of a string literal.
S(s) == [i \in 1..Len(s) |-> SubSeq(s, i, i)]

BS == "\\"
NL == "\n"
SP == " "
\* U+00E9 (2 bytes in UTF-8), U+20AC (3 bytes), and the two halves of the
\* surrogate pair of U+1F600 (4 bytes in UTF-8).
E9 == "u00E9"
EURO == "u20AC"
HS == "uD83D"
LS == "uDE00"

Drop(s, n) == SubSeq(s, n + 1, Len(s))
Take(s, n) == SubSeq(s, 1, n)
Last(s) == s[Len(s)]

StartsWith(s, p) == Len(s) >= Len(p) /\ Take(s, Len(p)) = p

\* seqs[lo] \o ... \o seqs[hi]
RECURSIVE Cat(_, _, _)
Cat(seqs, lo, hi) ==
    IF lo > hi THEN <<>>
    ELSE IF lo = hi THEN seqs[lo]
    ELSE LET mid == (lo + hi) \div 2 IN
         Cat(seqs, lo, mid) \o Cat(seqs, mid + 1, hi)

Flatten(lists) == Cat(lists, 1, Len(lists))

\* parts.join(sep)
Join(parts, sep) ==
    Flatten([i \in 1..Len(parts) |-> IF i = 1 THEN parts[i] ELSE sep \o parts[i]])

\* The indices of str whose unit satisfies Test, in order.
IndicesOf(str, Test(_)) ==
    SelectSeq([i \in 1..Len(str) |-> i], LAMBDA i : Test(str[i]))

IsIn(c, chars) == \E i \in 1..Len(chars) : chars[i] = c
IndexIn(c, chars) == CHOOSE i \in 1..Len(chars) : chars[i] = c

\* [...str]: the code points of a string, a high surrogate and the low
\* surrogate after it being one.
RECURSIVE CodePointsLoop(_, _, _, _)
CodePointsLoop(str, lo, hi, cps) ==
    IF lo > hi THEN cps
    ELSE IF lo = hi
    THEN IF str[lo] = LS /\ cps # <<>> /\ Last(cps) = <<HS>>
         THEN [cps EXCEPT ![Len(cps)] = <<HS, LS>>]
         ELSE Append(cps, <<str[lo]>>)
    ELSE LET mid == (lo + hi) \div 2
             left == CodePointsLoop(str, lo, mid, cps)
         IN IF Len(left) >= 0 THEN CodePointsLoop(str, mid + 1, hi, left) ELSE left

CodePoints(str) == CodePointsLoop(str, 1, Len(str), <<>>)

\* The UTF-8 length of one code point (a lone surrogate is encoded as
\* U+FFFD, three bytes).
Utf8Bytes(cp) ==
    IF Len(cp) = 2 THEN 4
    ELSE IF cp[1] \in {HS, LS, EURO} THEN 3
    ELSE IF cp[1] = E9 THEN 2
    ELSE 1

\* new Blob([char]).size, char being one code point or a backslash and one
\* ASCII unit
BlobSize(char) ==
    IF Len(char) = 2 /\ char[1] = BS THEN 2 ELSE Utf8Bytes(char)

(***************************************************************************)
(* VCard.formatTextValue: escaping and folding                             *)
(***************************************************************************)

max_line_bytes == 75

\* The escape step of one code point (the chain of ifs).
EscapeChar(char) ==
    IF char = <<",">> THEN <<BS, ",">>
    ELSE IF char = <<";">> THEN <<BS, ";">>
    ELSE IF char = <<":">> THEN <<BS, ":">>
    ELSE IF char = <<BS>> THEN <<BS, BS>>
    ELSE IF char = <<NL>> THEN <<BS, "n">>
    ELSE char

\* chars.slice(i, i + 5).join('') with i counted from 1.
Slice5(chars, i) ==
    Flatten(SubSeq(chars, i, IF i + 4 <= Len(chars) THEN i + 4 ELSE Len(chars)))

\* The %COM% %SEM% %COL% %BAC% tokens: the literal of the token read at i,
\* empty when there is none.
TokenAt(chars, i) ==
    LET token == Slice5(chars, i) IN
    IF token = S("%COM%") THEN <<",">>
    ELSE IF token = S("%SEM%") THEN <<";">>
    ELSE IF token = S("%COL%") THEN <<":">>
    ELSE IF token = S("%BAC%") THEN <<BS>>
    ELSE <<>>

\* A pass that folds where the bytes of the units run out, be it inside an
\* escape pair or a code point: what C5 rules out.
FoldStep_ByUnit(chars, i, st) ==
    IF st.skip > 0 THEN [st EXCEPT !.skip = @ - 1]
    ELSE
      LET tok == IF chars[i] = <<"%">> THEN TokenAt(chars, i) ELSE <<>>
          char == IF tok # <<>> THEN tok ELSE EscapeChar(chars[i])
          char_bytes == BlobSize(char)
          skip == IF tok # <<>> THEN 4 ELSE 0
          room == max_line_bytes - st.curr_line_bytes
      IN IF st.curr_line_bytes + char_bytes > max_line_bytes
         THEN IF Len(char) = 2 /\ room >= 1
              THEN [lines |-> Append(st.lines, Append(st.curr_line, char[1])),
                    curr_line |-> <<SP, char[2]>>,
                    curr_line_bytes |-> char_bytes, skip |-> skip]
              ELSE [lines |-> Append(st.lines, st.curr_line),
                    curr_line |-> <<SP>> \o char,
                    curr_line_bytes |-> 1 + char_bytes, skip |-> skip]
         ELSE [lines |-> st.lines,
               curr_line |-> st.curr_line \o char,
               curr_line_bytes |-> st.curr_line_bytes + char_bytes, skip |-> skip]

\* One pass of the body of the for loop, at index i.  st.skip counts the
\* indices still to pass over after a token (i += 4).
FoldStep(chars, i, st) ==
    IF st.skip > 0 THEN [st EXCEPT !.skip = @ - 1]
    ELSE
      LET tok == IF chars[i] = <<"%">> THEN TokenAt(chars, i) ELSE <<>>
          char == IF tok # <<>> THEN tok ELSE EscapeChar(chars[i])
          char_bytes == BlobSize(char)
          skip == IF tok # <<>> THEN 4 ELSE 0
      IN IF st.curr_line_bytes + char_bytes > max_line_bytes
         THEN [lines |-> Append(st.lines, st.curr_line),
               curr_line |-> <<SP>> \o char,
               curr_line_bytes |-> 1 + char_bytes, skip |-> skip]
         ELSE [lines |-> st.lines,
               curr_line |-> st.curr_line \o char,
               curr_line_bytes |-> st.curr_line_bytes + char_bytes, skip |-> skip]

RECURSIVE FoldLoop(_, _, _, _)
FoldLoop(chars, lo, hi, st) ==
    IF lo > hi THEN st
    ELSE IF lo = hi THEN FoldStep(chars, lo, st)
    ELSE LET mid == (lo + hi) \div 2
             left == FoldLoop(chars, lo, mid, st)
         IN IF left.skip >= 0 THEN FoldLoop(chars, mid + 1, hi, left) ELSE left

formatTextValue(str) ==
    LET chars == CodePoints(str)
        st == FoldLoop(chars, 1, Len(chars),
                       [lines |-> <<>>, curr_line |-> <<>>,
                        curr_line_bytes |-> 0, skip |-> 0])
    IN Join(Append(st.lines, st.curr_line), <<NL>>)

(***************************************************************************)
(* The tokenizer's unesc and unfolding                                     *)
(***************************************************************************)

\* str.replace(/ab/g, r) for a two-unit pattern a b: the scan from the
\* left, a match taking both its units.
RECURSIVE ReplaceLoop(_, _, _, _, _, _, _)
ReplaceLoop(str, a, b, r, lo, hi, st) ==
    IF lo > hi THEN st
    ELSE IF lo = hi
    THEN IF st.skip THEN [st EXCEPT !.skip = FALSE]
         ELSE IF str[lo] = a /\ lo < Len(str) /\ str[lo + 1] = b
         THEN [out |-> st.out \o r, skip |-> TRUE]
         ELSE [out |-> Append(st.out, str[lo]), skip |-> FALSE]
    ELSE LET mid == (lo + hi) \div 2
             left == ReplaceLoop(str, a, b, r, lo, mid, st)
         IN IF left.skip \in BOOLEAN
            THEN ReplaceLoop(str, a, b, r, mid + 1, hi, left) ELSE left

ReplaceAll2(str, a, b, r) ==
    ReplaceLoop(str, a, b, r, 1, Len(str), [out |-> <<>>, skip |-> FALSE]).out

unesc(str) ==
    ReplaceAll2(
      ReplaceAll2(
        ReplaceAll2(
          ReplaceAll2(
            ReplaceAll2(str, BS, ",", <<",">>),
            BS, ";", <<";">>),
          BS, ":", <<":">>),
        BS, BS, <<BS>>),
      BS, "n", <<NL>>)

\* str.replace(/\n /g, ''): the tokenizer's unfolding.
Unfold(str) == ReplaceAll2(str, NL, SP, <<>>)

(***************************************************************************)
(* JavaScript string helpers used by the setters                           *)
(***************************************************************************)

LowerLetters == S("abcdefghijklmnopqrstuvwxyz")
UpperLetters == S("ABCDEFGHIJKLMNOPQRSTUVWXYZ")
Digits == S("0123456789")

IsDigit(c) == IsIn(c, Digits)
IsLetter(c) == IsIn(c, LowerLetters) \/ IsIn(c, UpperLetters)
\* \s over the modelled code units
IsSpace(c) == c \in {SP, NL}

toLowerCase(str) ==
    [i \in 1..Len(str) |->
        IF IsIn(str[i], UpperLetters)
        THEN LowerLetters[IndexIn(str[i], UpperLetters)] ELSE str[i]]

toUpperCase(str) ==
    [i \in 1..Len(str) |->
        IF IsIn(str[i], LowerLetters)
        THEN UpperLetters[IndexIn(str[i], LowerLetters)] ELSE str[i]]

trim(str) ==
    LET solid == IndicesOf(str, LAMBDA c : ~IsSpace(c)) IN
    IF solid = <<>> THEN <<>> ELSE SubSeq(str, solid[1], Last(solid))

\* str.replace(/\s+/g, ' ')
CollapseSpaces(str) ==
    LET kept == SelectSeq([i \in 1..Len(str) |-> i],
                          LAMBDA i : ~IsSpace(str[i]) \/ i = 1 \/ ~IsSpace(str[i - 1]))
    IN [k \in 1..Len(kept) |-> IF IsSpace(str[kept[k]]) THEN SP ELSE str[kept[k]]]

\* str.replace(/[^\d]/g, '')
DigitsOf(str) == SelectSeq(str, IsDigit)

\* The first index of unit c in str, 0 when there is none (indexOf + 1).
FirstIndex(str, c) ==
    LET at == IndicesOf(str, LAMBDA u : u = c) IN
    IF at = <<>> THEN 0 ELSE at[1]

\* The pieces of str between the units that satisfy IsSep, the empty
\* pieces too.
SplitAt(str, IsSep(_)) ==
    LET at == IndicesOf(str, IsSep)
        From(k) == IF k = 1 THEN 1 ELSE at[k - 1] + 1
        To(k) == IF k = Len(at) + 1 THEN Len(str) ELSE at[k] - 1
    IN [k \in 1..(Len(at) + 1) |-> SubSeq(str, From(k), To(k))]

\* str.split(c) for a one-unit separator
SplitOn(str, c) == SplitAt(str, LAMBDA u : u = c)

\* str.split(/x+/) for a class x of units: a run of separators separates
\* two pieces, and a leading or trailing run leaves an empty first or last
\* piece.
SplitRuns(str, IsSep(_)) ==
    LET pieces == SplitAt(str, IsSep)
        n == Len(pieces)
    IN IF n = 1 THEN pieces
       ELSE <<pieces[1]>>
            \o SelectSeq(SubSeq(pieces, 2, n - 1), LAMBDA l : l # <<>>)
            \o <<pieces[n]>>

\* An absent value (null or undefined) is the empty tuple, a present one
\* the one-element tuple.
None == <<>>
Some(x) == <<x>>
\* The text a template literal gives an undefined value.
Undefined == <<"undefined">>
Str(x) == IF x = Undefined THEN S("undefined") ELSE x

(***************************************************************************)
(* The VCard contact model                                                 *)
(***************************************************************************)

\* constructor()
NewVCard ==
    [specVersion |-> 4, kind |-> None, name |-> <<>>, nickname |-> <<>>,
     photo |-> <<>>, bday |-> None, anniversary |-> None, gender |-> None,
     gender_ident |-> None, address |-> <<>>, tel |-> <<>>, email |-> <<>>,
     impp |-> <<>>, title |-> <<>>, role |-> <<>>, logo |-> <<>>,
     org |-> <<>>, note |-> <<>>, url |-> <<>>]

\* What a call leaves: the contact, and the message of the error it threw
\* ("" when it returned).
Ok(v) == [v |-> v, err |-> ""]
Throw(v, msg) == [v |-> v, err |-> msg]

\* this.emailRegex.test(str).  The local part is dot-separated runs of
\* units outside <>()[]\.,;:\s@" ; the domain is one or more
\* [a-zA-Z\-0-9]+ labels each followed by a dot, then two or more letters.
\* The quoted local part and the bracketed address need the units " and
\* [ ], which lie outside every string of the model.
LocalExcluded == {"<", ">", "(", ")", "[", "]", BS, ",", ";", ":", "@", "\""}

LocalPartOk(l) ==
    /\ l # <<>>
    /\ \A i \in 1..Len(l) :
          /\ l[i] \notin LocalExcluded
          /\ ~IsSpace(l[i])
    /\ l[1] # "." /\ l[Len(l)] # "."
    /\ \A i \in 1..(Len(l) - 1) : ~(l[i] = "." /\ l[i + 1] = ".")

DomainOk(d) ==
    LET labels == SplitOn(d, ".")
        n == Len(labels)
    IN /\ n >= 2
       /\ \A k \in 1..n :
            /\ labels[k] # <<>>
            /\ \A i \in 1..Len(labels[k]) :
                  IsLetter(labels[k][i]) \/ IsDigit(labels[k][i]) \/ labels[k][i] = "-"
       /\ Len(labels[n]) >= 2
       /\ \A i \in 1..Len(labels[n]) : IsLetter(labels[n][i])

emailRegexTest(str) ==
    \E i \in 1..Len(str) :
        /\ str[i] = "@"
        /\ LocalPartOk(Take(str, i - 1))
        /\ DomainOk(Drop(str, i))

\* str.match(this.dataUriRegex), /^data:image\/([^;]*);base64,(.*)$/ :
\* the type runs to the first semicolon, and the data holds no newline.
dataUriMatch(str) ==
    LET head == S("data:image/")
        rest == Drop(str, Len(head))
        semi == FirstIndex(rest, ";")
        mark == S(";base64,")
        tail == Drop(rest, semi - 1)
    IN IF /\ StartsWith(str, head)
          /\ semi > 0
          /\ StartsWith(tail, mark)
          /\ ~IsIn(NL, Drop(tail, Len(mark)))
       THEN [ok |-> TRUE, type |-> Take(rest, semi - 1),
             data |-> Drop(tail, Len(mark))]
       ELSE [ok |-> FALSE, type |-> <<>>, data |-> <<>>]

KINDS == {S("individual"), S("group"), S("org"), S("location")}
GENDERS == {S("M"), S("F"), S("O"), S("N"), S("U")}
TEL_TYPES == {S("text"), S("voice"), S("fax"), S("cell"), S("video"),
              S("pager"), S("textphone")}
IM_PROTOCOLS == {S("sip"), S("xmpp"), S("irc"), S("ymsgr"), S("msn"),
                 S("aim"), S("im")}

setVersion(v, version) ==
    IF version # 3 /\ version # 4
    THEN Throw(v, "Unsupported version")
    ELSE Ok([v EXCEPT !.specVersion = version])

setNickname(v, nickname) == Ok([v EXCEPT !.nickname = Append(@, nickname)])

setName(v, name) ==
    Ok([v EXCEPT !.name = Append(@, trim(CollapseSpaces(name)))])

setKind(v, kind) ==
    LET k == toLowerCase(trim(kind)) IN
    IF k \notin KINDS THEN Throw(v, "Invalid Kind value.")
    ELSE Ok([v EXCEPT !.kind = Some(k)])

setPhoto(v, dataURI) ==
    IF ~dataUriMatch(dataURI).ok THEN Throw(v, "Invalid Image Data URI")
    ELSE Ok([v EXCEPT !.photo = Append(@, dataURI)])

\* A date argument is [isDate |-> whether it is a Date, date |-> the Date].
setBday(v, bday) ==
    IF ~bday.isDate THEN Throw(v, "Invalid Birthday date")
    ELSE Ok([v EXCEPT !.bday = Some(bday.date)])

setAnniversary(v, anniversary) ==
    IF ~anniversary.isDate THEN Throw(v, "Invalid Anniversary date")
    ELSE Ok([v EXCEPT !.anniversary = Some(anniversary.date)])

\* ident is None (null, the default) or Some(string).
setGender(v, gender, ident) ==
    LET id == IF ident # None /\ ident[1] # <<>>
              THEN Some(toLowerCase(trim(ident[1]))) ELSE ident
    IN IF gender \notin GENDERS THEN Throw(v, "Invalid Gender value.")
       ELSE Ok([v EXCEPT !.gender = Some(gender), !.gender_ident = id])

setAddress(v, street, city, state, zip, country, label) ==
    Ok([v EXCEPT !.address = Append(@,
          [street |-> street, city |-> city, state |-> state, zip |-> zip,
           country |-> country, label |-> label])])

\* for(...) list[i].pref = false
ClearPref(list) == [i \in 1..Len(list) |-> [list[i] EXCEPT !.pref = FALSE]]

\* A setPhone that clears the flags before it validates the types: what C6
\* rules out.
setPhone_ClearsFirst(v, phone, ext, type, pref) ==
    LET v1 == IF pref THEN [v EXCEPT !.tel = ClearPref(@)] ELSE v IN
    IF \E i \in 1..Len(type) : type[i] \notin TEL_TYPES
    THEN Throw(v1, "Invalid Type value.")
    ELSE Ok([v1 EXCEPT !.tel = Append(@,
               [phone |-> phone, ext |-> ext, type |-> type, pref |-> pref])])

\* type is the array of types (a string argument is the array of it).
setPhone(v, phone, ext, type, pref) ==
    IF \E i \in 1..Len(type) : type[i] \notin TEL_TYPES
    THEN Throw(v, "Invalid Type value.")
    ELSE LET v1 == IF pref THEN [v EXCEPT !.tel = ClearPref(@)] ELSE v IN
         Ok([v1 EXCEPT !.tel = Append(@,
               [phone |-> phone, ext |-> ext, type |-> type, pref |-> pref])])

\* A setEmail that leaves the flags of the entries it finds: what C2 rules
\* out.
setEmail_KeepsFlags(v, email, pref) ==
    IF ~emailRegexTest(toLowerCase(email))
    THEN Throw(v, "Invalid Email value.")
    ELSE Ok([v EXCEPT !.email = Append(@, [email |-> email, pref |-> pref])])

setEmail(v, email, pref) ==
    IF ~emailRegexTest(toLowerCase(email))
    THEN Throw(v, "Invalid Email value.")
    ELSE LET v1 == IF pref THEN [v EXCEPT !.email = ClearPref(@)] ELSE v IN
         Ok([v1 EXCEPT !.email = Append(@, [email |-> email, pref |-> pref])])

setIM(v, imurl, protocol, pref) ==
    IF protocol \notin IM_PROTOCOLS
    THEN Throw(v, "Invalid Protocol value.")
    ELSE LET v1 == IF pref THEN [v EXCEPT !.impp = ClearPref(@)] ELSE v IN
         Ok([v1 EXCEPT !.impp = Append(@,
               [imurl |-> imurl, protocol |-> protocol, pref |-> pref])])

setTitle(v, title) == Ok([v EXCEPT !.title = Append(@, title)])

setRole(v, role) == Ok([v EXCEPT !.role = Append(@, role)])

setLogo(v, dataURI) ==
    IF ~dataUriMatch(dataURI).ok THEN Throw(v, "Invalid Image Data URI")
    ELSE Ok([v EXCEPT !.logo = Append(@, dataURI)])

\* orgs is the list of the arguments given (at most three are read); the
\* empty ones are left out.
setOrg(v, orgs) ==
    Ok([v EXCEPT !.org = Append(@,
          SelectSeq(Take(orgs, IF Len(orgs) < 3 THEN Len(orgs) ELSE 3),
                    LAMBDA o : o # <<>>))])

setNote(v, note) == Ok([v EXCEPT !.note = Append(@, note)])

setURL(v, url) == Ok([v EXCEPT !.url = Append(@, url)])

(***************************************************************************)
(* Dates.  A Date is the tuple <<year, month, day, hour, minute, second>>  *)
(* of its UTC instant (month 1..12).                                       *)
(***************************************************************************)

\* The decimal digits of a natural number, at least width of them.
RECURSIVE Pad(_, _)
Pad(n, width) ==
    IF n < 10 /\ width <= 1 THEN <<Digits[n + 1]>>
    ELSE Pad(n \div 10, width - 1) \o <<Digits[(n % 10) + 1]>>

\* date.toISOString(): four digits for the years 0..9999, a sign and six
\* digits for the others.
toISOString(date) ==
    LET y == date[1]
        year == IF y >= 0 /\ y <= 9999 THEN Pad(y, 4)
                ELSE IF y > 9999 THEN <<"+">> \o Pad(y, 6)
                ELSE <<"-">> \o Pad(0 - y, 6)
    IN year \o <<"-">> \o Pad(date[2], 2) \o <<"-">> \o Pad(date[3], 2)
       \o <<"T">> \o Pad(date[4], 2) \o <<":">> \o Pad(date[5], 2)
       \o <<":">> \o Pad(date[6], 2) \o S(".000Z")

\* str.split(/[^\d]+/): the runs of digits, with an empty piece before a
\* leading and after a trailing separator.
SplitNonDigits(str) == SplitRuns(str, LAMBDA u : ~IsDigit(u))

formatDate(v, date) ==
    LET p == SplitNonDigits(toISOString(date)) IN
    IF v.specVersion = 4
    THEN p[1] \o p[2] \o p[3] \o <<"T">> \o p[4] \o p[5] \o p[6] \o <<"Z">>
    ELSE p[1] \o <<"-">> \o p[2] \o <<"-">> \o p[3] \o <<"T">> \o p[4]
         \o <<":">> \o p[5] \o <<":">> \o p[6] \o <<"Z">>

(***************************************************************************)
(* VCard.render                                                            *)
(***************************************************************************)

\* .replace(/\:/g, '%COL%').replace(/\;/g, '%SEM%').replace(/\,/g, '%COM%')
\* .replace(/\\/g, '%BAC%')
Tokenized(str) ==
    Flatten([i \in 1..Len(str) |->
        IF str[i] = ":" THEN S("%COL%")
        ELSE IF str[i] = ";" THEN S("%SEM%")
        ELSE IF str[i] = "," THEN S("%COM%")
        ELSE IF str[i] = BS THEN S("%BAC%")
        ELSE <<str[i]>>])

\* The FN line of name i, and after the first the N line derived from it.
NameParts(v, i) ==
    LET fn == formatTextValue(S("FN%COL%") \o v.name[i])
        name_parts == SplitOn(v.name[i], SP)
        n == Len(name_parts)
        last_name == Join(Take(name_parts, n - 1), <<SP>>)
        name == name_parts[n] \o
                (IF last_name # <<>> THEN S("%SEM%") \o last_name ELSE <<>>)
    IN IF i = 1 THEN <<fn, formatTextValue(S("N%COL%") \o name)>> ELSE <<fn>>

NicknameParts(v, i) ==
    IF trim(v.nickname[i]) = <<>> THEN <<>>
    ELSE <<S("NICKNAME:") \o formatTextValue(v.nickname[i])>>

\* A PHOTO or LOGO line; key is the property name.
ImagePart(v, key, uri) ==
    IF v.specVersion = 4
    THEN formatTextValue(key \o S("%COL%") \o Tokenized(uri))
    ELSE LET m == dataUriMatch(uri) IN
         formatTextValue(key \o S("%SEM%ENCODING=b%SEM%TYPE=")
                         \o toUpperCase(m.type) \o S("%COL%") \o Tokenized(m.data))

GenderPart(v) ==
    formatTextValue(S("GENDER%COL%") \o v.gender[1] \o
        (IF v.gender_ident # None /\ v.gender_ident[1] # <<>>
         THEN S("%SEM%") \o v.gender_ident[1] ELSE <<>>))

\* The lines of address i: the ADR line, and under version 3 its X-ABLabel
\* line in the same group (getGroup() counts the addresses).
AddressParts(v, i) ==
    LET a == v.address[i]
        group == IF v.specVersion = 3 THEN S("item") \o Pad(i, 1) \o <<".">> ELSE <<>>
        adr == group \o S("ADR")
               \o (IF v.specVersion = 4 /\ a.label # <<>>
                   THEN S("%SEM%LABEL=") \o a.label ELSE <<>>)
               \o S("%COL%%SEM%%SEM%") \o a.street \o S("%SEM%") \o a.city
               \o S("%SEM%") \o a.state \o S("%SEM%") \o a.zip
               \o S("%SEM%") \o a.country
    IN IF v.specVersion = 3
       THEN <<formatTextValue(adr),
              formatTextValue(group \o S("X-ABLabel%COL%") \o a.label)>>
       ELSE <<formatTextValue(adr)>>

\* phone_type_map
phone_type_map(t) ==
    IF t = S("text") THEN S("cell")
    ELSE IF t = S("textphone") THEN <<>>
    ELSE t

\* type.map(t=>phone_type_map[t]).filter(t=>!!t), then push('pref')
TelTypesV3(tel) ==
    SelectSeq([i \in 1..Len(tel.type) |-> phone_type_map(tel.type[i])],
              LAMBDA t : t # <<>>)
    \o (IF tel.pref THEN <<S("pref")>> ELSE <<>>)

\* +1-NNN-NNN-NNNN from the first ten digits of the number.
PhoneNumber(phone) ==
    LET d == DigitsOf(phone)
        ten == Take(d, IF Len(d) < 10 THEN Len(d) ELSE 10)
        n == Len(ten)
        g1 == Take(ten, IF n < 3 THEN n ELSE 3)
        g2 == SubSeq(ten, 4, IF n < 6 THEN n ELSE 6)
        g3 == SubSeq(ten, 7, n)
    IN S("+1-") \o g1 \o <<"-">> \o g2 \o <<"-">> \o g3

TelPart(v, tel) ==
    LET v4 == v.specVersion = 4
        type == IF v.specVersion = 3 THEN TelTypesV3(tel) ELSE tel.type
    IN formatTextValue(
         S("TEL")
         \o (IF v4 THEN S("%SEM%VALUE=uri") ELSE <<>>)
         \o (IF v4 /\ tel.pref THEN S("%SEM%PREF=1") ELSE <<>>)
         \o (IF Len(tel.type) > 0
             THEN S("%SEM%TYPE=") \o Join(type, S("%COM%")) ELSE <<>>)
         \o (IF v4 THEN S("%COL%tel%COL%") ELSE S("%COL%"))
         \o PhoneNumber(tel.phone)
         \o (IF v4 /\ tel.ext # <<>> THEN S("%SEM%ext=") \o tel.ext ELSE <<>>))

EmailPart(v, em) ==
    formatTextValue(
         S("EMAIL")
         \o (IF v.specVersion = 4
             THEN (IF em.pref THEN S("%SEM%PREF=1") ELSE <<>>)
             ELSE S("%SEM%TYPE=internet")
                  \o (IF em.pref THEN S("%COM%pref") ELSE <<>>))
         \o S("%COL%") \o em.email)

ImppPart(v, im) ==
    formatTextValue(
         S("IMPP")
         \o (IF im.pref THEN S("%SEM%PREF=1") ELSE <<>>)
         \o S("%COL%") \o im.protocol \o S("%COL%") \o Str(im.imurl))

\* list.map(f) with every result a list of lines, flattened.
PartsOf(list, f(_)) == Flatten([i \in 1..Len(list) |-> f(i)])

\* IMPP lines under either version: what C8 rules out.
ImppParts_AnyVersion(v) ==
    PartsOf(v.impp, LAMBDA i : <<ImppPart(v, v.impp[i])>>)

\* The IMPP lines: one for every entry, under version 4 only.
ImppParts(v) ==
    IF v.specVersion = 4
    THEN PartsOf(v.impp, LAMBDA i : <<ImppPart(v, v.impp[i])>>)
    ELSE <<>>

\* The parts pushed by render once its two checks pass.
RenderParts(v) ==
    LET v4 == v.specVersion = 4 IN
    <<S("BEGIN:VCARD"), S("VERSION:") \o Pad(v.specVersion, 1) \o S(".0")>>
    \o (IF v4 THEN <<S("KIND:") \o v.kind[1]>> ELSE <<>>)
    \o PartsOf(v.name, LAMBDA i : NameParts(v, i))
    \o PartsOf(v.nickname, LAMBDA i : NicknameParts(v, i))
    \o PartsOf(v.photo, LAMBDA i : <<ImagePart(v, S("PHOTO"), v.photo[i])>>)
    \o (IF v.bday # None THEN <<S("BDAY:") \o formatDate(v, v.bday[1])>> ELSE <<>>)
    \o (IF v4 /\ v.anniversary # None
        THEN <<S("ANNIVERSARY:") \o formatDate(v, v.anniversary[1])>> ELSE <<>>)
    \o (IF v4 /\ v.gender # None THEN <<GenderPart(v)>> ELSE <<>>)
    \o PartsOf(v.address, LAMBDA i : AddressParts(v, i))
    \o PartsOf(v.tel, LAMBDA i : <<TelPart(v, v.tel[i])>>)
    \o PartsOf(v.email, LAMBDA i : <<EmailPart(v, v.email[i])>>)
    \o ImppParts(v)
    \o PartsOf(v.title, LAMBDA i : <<formatTextValue(S("TITLE%COL%") \o v.title[i])>>)
    \o PartsOf(v.role, LAMBDA i : <<formatTextValue(S("ROLE%COL%") \o v.role[i])>>)
    \o PartsOf(v.logo, LAMBDA i : <<ImagePart(v, S("LOGO"), v.logo[i])>>)
    \o PartsOf(v.org, LAMBDA i :
          <<formatTextValue(S("ORG%COL%") \o Join(v.org[i], S("%SEM%")))>>)
    \o PartsOf(v.note, LAMBDA i : <<formatTextValue(S("NOTE%COL%") \o v.note[i])>>)
    \o PartsOf(v.url, LAMBDA i : <<S("URL:") \o v.url[i]>>)
    \o <<S("END:VCARD")>>

\* A render without the check of the name: what C7 rules out.
render_NoNameCheck(v) ==
    IF v.specVersion = 4 /\ (v.kind = None \/ v.kind[1] = <<>>)
    THEN [text |-> None, err |-> "Missing Kind property (Required in Version 4)"]
    ELSE [text |-> Some(Join(RenderParts(v), <<NL>>)), err |-> ""]

\* render(): the text, or the error thrown.
render(v) ==
    IF v.specVersion = 4 /\ (v.kind = None \/ v.kind[1] = <<>>)
    THEN [text |-> None, err |-> "Missing Kind property (Required in Version 4)"]
    ELSE IF Len(v.name) = 0
    THEN [text |-> None, err |-> "Missing Name property."]
    ELSE [text |-> Some(Join(RenderParts(v), <<NL>>)), err |-> ""]

(***************************************************************************)
(* VCardParser.tokenizeVcardString                                         *)
(***************************************************************************)

\* str.match(/(\\.|[^c])+/g) || []: the maximal runs of units other than
\* c, a backslash taking the unit after it (any but a newline) with it.
MatchStep(str, c, i, st) ==
    LET closed == IF st.run = <<>> THEN st.runs ELSE Append(st.runs, st.run) IN
    IF st.skip THEN [st EXCEPT !.skip = FALSE]
    ELSE IF str[i] = BS /\ i < Len(str) /\ str[i + 1] # NL
    THEN [runs |-> st.runs, run |-> st.run \o <<BS, str[i + 1]>>, skip |-> TRUE]
    ELSE IF str[i] # c
    THEN [runs |-> st.runs, run |-> Append(st.run, str[i]), skip |-> FALSE]
    ELSE [runs |-> closed, run |-> <<>>, skip |-> FALSE]

RECURSIVE MatchLoop(_, _, _, _, _)
MatchLoop(str, c, lo, hi, st) ==
    IF lo > hi THEN st
    ELSE IF lo = hi THEN MatchStep(str, c, lo, st)
    ELSE LET mid == (lo + hi) \div 2
             left == MatchLoop(str, c, lo, mid, st)
         IN IF left.skip \in BOOLEAN THEN MatchLoop(str, c, mid + 1, hi, left) ELSE left

MatchAll(str, c) ==
    LET st == MatchLoop(str, c, 1, Len(str),
                        [runs |-> <<>>, run |-> <<>>, skip |-> FALSE])
    IN IF st.run = <<>> THEN st.runs ELSE Append(st.runs, st.run)

\* str.split(/\n+/g): a run of newlines separates two lines; a leading or
\* trailing run leaves an empty first or last line.
SplitLines(str) == SplitRuns(str, LAMBDA u : u = NL)

\* One parameter of a line: its name and its values, or the TypeError of a
\* parameter with no separable name and value.
\* list.map(unesc)
UnescAll(list) == [i \in 1..Len(list) |-> unesc(list[i])]

\* The parameter of the runs m of prop between its = signs, and of the
\* runs vals of the second between its commas.
PropOf(m, vals) ==
    IF Len(m) < 2 \/ vals = <<>>
    THEN [ok |-> FALSE, prop |-> [property |-> <<>>, values |-> <<>>]]
    ELSE [ok |-> TRUE, prop |-> [property |-> unesc(m[1]), values |-> UnescAll(vals)]]

SecondRuns(m, c) == IF Len(m) < 2 THEN <<>> ELSE MatchAll(m[2], c)

TokenizeProp(prop) ==
    PropOf(MatchAll(prop, "="), SecondRuns(MatchAll(prop, "="), ","))

BadLine == [ok |-> FALSE, token |-> [key |-> <<>>, props |-> <<>>, values |-> <<>>]]

\* The token of the runs kp of key_props between its semicolons, of the
\* parameters props, and of the runs vals of the values.
TokenOf(kp, props, vals) ==
    IF kp = <<>> \/ \E i \in 1..Len(props) : ~props[i].ok THEN BadLine
    ELSE [ok |-> TRUE,
          token |-> [key |-> unesc(kp[1]),
                     props |-> [i \in 1..Len(props) |-> props[i].prop],
                     values |-> UnescAll(vals)]]

PropsOf(kp) == [i \in 1..(Len(kp) - 1) |-> TokenizeProp(kp[i + 1])]

KeyProps(kp, vals) == TokenOf(kp, PropsOf(kp), vals)

\* The token of the runs m of a line between its colons.
LineOf(m) ==
    IF m = <<>> THEN BadLine
    ELSE KeyProps(MatchAll(m[1], ";"), MatchAll(Join(Tail(m), <<":">>), ";"))

\* The token of one logical line, or the TypeError of a line with no
\* separable structure.
TokenizeLine(line) == LineOf(MatchAll(line, ":"))

\* The tokens of the lines, or the TypeError of one of them.
TokensOf(toks) ==
    IF \E i \in 1..Len(toks) : ~toks[i].ok
    THEN [tokens |-> <<>>, err |-> "TypeError"]
    ELSE [tokens |-> [i \in 1..Len(toks) |-> toks[i].token], err |-> ""]

\* The group loop at token i.  label_map is the set of the pairs
\* <<label, index of the group's first token>>: the own properties of the
\* object {}.  The object inherits hasOwnProperty and the __proto__
\* accessor: an own property named hasOwnProperty hides the method, so that
\* the next call of it is a TypeError, and the assignment of a number to
\* __proto__ adds no own property.
GroupStep(i, st) ==
    LET tokens == st.tokens
        label_map == st.label_map
    IN IF st.err # "" \/ ~IsIn(".", tokens[i].key) THEN st
       ELSE LET parts == SplitOn(tokens[i].key, ".")
                label == parts[1]
                key == parts[2]
            IN IF \E e \in label_map : e[1] = S("hasOwnProperty")
               THEN [st EXCEPT !.err = "TypeError"]
               ELSE IF ~\E e \in label_map : e[1] = label
               THEN [tokens |-> [tokens EXCEPT ![i].key = key],
                     label_map |-> IF label = S("__proto__") THEN label_map
                                   ELSE label_map \cup {<<label, i>>},
                     err |-> ""]
               ELSE LET first == (CHOOSE e \in label_map : e[1] = label)[2]
                        name == IF key = S("X-ABLabel") THEN S("LABEL") ELSE key
                    IN [tokens |-> [tokens EXCEPT ![first].props = Append(@,
                                      [property |-> name, values |-> tokens[i].values])],
                        label_map |-> label_map,
                        err |-> ""]

RECURSIVE GroupLoop(_, _, _)
GroupLoop(lo, hi, st) ==
    IF lo > hi THEN st
    ELSE IF lo = hi THEN GroupStep(lo, st)
    ELSE LET mid == (lo + hi) \div 2
             left == GroupLoop(lo, mid, st)
         IN IF Len(left.tokens) >= 0 THEN GroupLoop(mid + 1, hi, left) ELSE left

MergeGroups(tokens) ==
    GroupLoop(1, Len(tokens), [tokens |-> tokens, label_map |-> {}, err |-> ""])

\* lines.map(line => ...)
LineTokens(lines) == [i \in 1..Len(lines) |-> TokenizeLine(lines[i])]

\* tokens.filter(t=>t.key.indexOf(".") === -1) on the result m of the
\* group loop.
Filtered(m) ==
    IF m.err # "" THEN [tokens |-> <<>>, err |-> m.err]
    ELSE [tokens |-> SelectSeq(m.tokens, LAMBDA k : ~IsIn(".", k.key)), err |-> ""]

\* The group loop and the filter after it.
Grouped(t) == IF t.err # "" THEN t ELSE Filtered(MergeGroups(t.tokens))

tokenizeVcardString(str) ==
    Grouped(TokensOf(LineTokens(SplitLines(Unfold(str)))))

(***************************************************************************)
(* new Date(Date.UTC(y, m - 1, d, hr, mn, sec))                            *)
(***************************************************************************)

\* +n of a string of digits
RECURSIVE ToNumber(_)
ToNumber(digits) ==
    IF digits = <<>> THEN 0
    ELSE 10 * ToNumber(Take(digits, Len(digits) - 1))
         + (IndexIn(digits[Len(digits)], Digits) - 1)

\* The day number of year y, month m (1..12), day d, counted from
\* 1970-01-01, in the proleptic Gregorian calendar.
DaysFromCivil(y, m, d) ==
    LET yy == IF m <= 2 THEN y - 1 ELSE y
        era == yy \div 400
        yoe == yy - era * 400
        doy == ((153 * (IF m > 2 THEN m - 3 ELSE m + 9) + 2) \div 5) + d - 1
        doe == yoe * 365 + (yoe \div 4) - (yoe \div 100) + doy
    IN era * 146097 + doe - 719468

CivilFromDays(days) ==
    LET z == days + 719468
        era == z \div 146097
        doe == z - era * 146097
        yoe == (doe - (doe \div 1460) + (doe \div 36524) - (doe \div 146096)) \div 365
        doy == doe - (365 * yoe + (yoe \div 4) - (yoe \div 100))
        mp == (5 * doy + 2) \div 153
        d == doy - ((153 * mp + 2) \div 5) + 1
        m == IF mp < 10 THEN mp + 3 ELSE mp - 9
    IN <<yoe + era * 400 + (IF m <= 2 THEN 1 ELSE 0), m, d>>

\* Date.UTC: a year 0..99 is 1900 + year, and a month (from 0), day, hour,
\* minute or second out of its range carries over.
DateUTC(y, month0, d, hr, mn, sec) ==
    LET year == IF y >= 0 /\ y <= 99 THEN 1900 + y ELSE y
        ym == year + (month0 \div 12)
        m == (month0 % 12) + 1
        secs == (DaysFromCivil(ym, m, 1) + d - 1) * 86400 + hr * 3600 + mn * 60 + sec
        day == CivilFromDays(secs \div 86400)
        t == secs % 86400
    IN <<day[1], day[2], day[3], t \div 3600, (t % 3600) \div 60, t % 60>>

\* The Date of a BDAY or ANNIVERSARY value: its digits, matched against
\* /^(\d{4})(\d{2})(\d{2})(\d{2})(\d{2})(\d{2})/ ; no Date (a TypeError)
\* when they are fewer than 14.
ParseDate(value) ==
    LET d == DigitsOf(value) IN
    IF Len(d) < 14 THEN None
    ELSE Some(DateUTC(ToNumber(SubSeq(d, 1, 4)), ToNumber(SubSeq(d, 5, 6)) - 1,
                      ToNumber(SubSeq(d, 7, 8)), ToNumber(SubSeq(d, 9, 10)),
                      ToNumber(SubSeq(d, 11, 12)), ToNumber(SubSeq(d, 13, 14))))

(***************************************************************************)
(* VCardParser: the field mapper.  Every handler takes the contact the     *)
(* parser was given and the token, and leaves a result as the setters do.  *)
(***************************************************************************)

\* token.props.filter(p=>p.property.toUpperCase() === name)
PropsNamed(token, name) ==
    SelectSeq(token.props, LAMBDA p : toUpperCase(p.property) = name)

\* values.forEach(x => this.vcard.setNickname(x)), and the same with setNote
\* and setURL: the calls in order, up to the first throw.
RECURSIVE ForEach(_, _, _)
ForEach(v, values, setter) ==
    IF values = <<>> THEN Ok(v)
    ELSE LET r == IF setter = "setNickname" THEN setNickname(v, Head(values))
                  ELSE IF setter = "setNote" THEN setNote(v, Head(values))
                  ELSE setURL(v, Head(values))
         IN IF r.err # "" THEN r ELSE ForEach(r.v, Tail(values), setter)

parseFNToken(v, token) == setName(v, token.values[1])

parseNicknameToken(v, token) == ForEach(v, token.values, "setNickname")

\* parsePhotoToken and parseLogoToken; setter is setPhoto or setLogo.
parseImageToken(v, token, setter(_, _)) ==
    IF v.specVersion = 3
    THEN LET type_prop == PropsNamed(token, S("TYPE")) IN
         IF Len(type_prop) = 0 \/ Len(type_prop[1].values) = 0
         THEN Throw(v, "Invalid vCard (Missing encoding)")
         ELSE setter(v, S("data:image/") \o toLowerCase(type_prop[1].values[1])
                        \o S(";base64,") \o token.values[1])
    ELSE setter(v, Join(token.values, <<";">>))

parseBDayToken(v, token) ==
    LET d == ParseDate(token.values[1]) IN
    IF d = None THEN Throw(v, "TypeError")
    ELSE setBday(v, [isDate |-> TRUE, date |-> d[1]])

parseAnniversaryToken(v, token) ==
    LET d == ParseDate(token.values[1]) IN
    IF d = None THEN Throw(v, "TypeError")
    ELSE setAnniversary(v, [isDate |-> TRUE, date |-> d[1]])

parseGenderToken(v, token) ==
    setGender(v, token.values[1],
              IF Len(token.values) >= 2 THEN Some(token.values[2]) ELSE None)

\* setAddress(...token.values, label): the label follows the values, a
\* parameter not given is '', and a seventh argument on is not read.
parseAddressToken(v, token) ==
    LET label_prop == PropsNamed(token, S("LABEL"))
        label == IF Len(label_prop) > 0 /\ Len(label_prop[1].values) > 0
                 THEN label_prop[1].values[1] ELSE <<>>
        args == token.values \o <<label>>
        Arg(k) == IF k <= Len(args) THEN args[k] ELSE <<>>
    IN setAddress(v, Arg(1), Arg(2), Arg(3), Arg(4), Arg(5), Arg(6))

parsePhoneToken(v, token) ==
    LET digits == DigitsOf(token.values[1])
        phone == IF Len(digits) = 11 /\ digits[1] = "1" THEN Tail(digits) ELSE digits
        type_prop == PropsNamed(token, S("TYPE"))
        types == IF Len(type_prop) > 0 THEN type_prop[1].values ELSE <<>>
        pref_prop == PropsNamed(token, S("PREF"))
    IN IF v.specVersion = 3
       THEN setPhone(v, phone, <<>>,
                     SelectSeq(types, LAMBDA t : t # S("pref")),
                     \E n \in 1..Len(types) : types[n] = S("pref"))
       ELSE setPhone(v, phone,
                     IF Len(token.values) > 1 THEN DigitsOf(token.values[2]) ELSE <<>>,
                     types, Len(pref_prop) > 0)

parseEmailToken(v, token) ==
    LET type_prop == PropsNamed(token, S("TYPE"))
        types == IF Len(type_prop) > 0 THEN type_prop[1].values ELSE <<>>
        pref_prop == PropsNamed(token, S("PREF"))
    IN setEmail(v, token.values[1],
                IF v.specVersion = 3
                THEN \E n \in 1..Len(types) : types[n] = S("pref")
                ELSE Len(pref_prop) > 0)

\* var [protocol, imurl] = token.values[0].split(":")
parseIMToken(v, token) ==
    LET pref_prop == PropsNamed(token, S("PREF"))
        pieces == SplitOn(token.values[1], ":")
    IN setIM(v, IF Len(pieces) >= 2 THEN pieces[2] ELSE Undefined,
             pieces[1], Len(pref_prop) > 0)

parseTitleToken(v, token) == setTitle(v, token.values[1])

parseRoleToken(v, token) == setRole(v, token.values[1])

parseOrgToken(v, token) == setOrg(v, token.values)

parseNoteToken(v, token) == ForEach(v, token.values, "setNote")

parseURLToken(v, token) == ForEach(v, token.values, "setURL")

parseKindToken(v, token) == setKind(v, token.values[1])

\* parseInt("3.0") is 3 and parseInt("4.0") is 4.
parseVersionToken(v, token) ==
    IF token.values[1] \notin {S("3.0"), S("4.0")}
    THEN Throw(v, "Invalid or incompatible vCard version.")
    ELSE setVersion(v, IF token.values[1] = S("3.0") THEN 3 ELSE 4)

parseToken(v, token) ==
    LET key == toUpperCase(token.key) IN
    IF token.key = <<>> \/ Len(token.values) = 0
    THEN Throw(v, "Invalid vCard (Invalid token)")
    ELSE IF key = S("VERSION") THEN parseVersionToken(v, token)
    ELSE IF key = S("N") THEN Ok(v)
    ELSE IF key = S("FN") THEN parseFNToken(v, token)
    ELSE IF key = S("KIND") THEN parseKindToken(v, token)
    ELSE IF key = S("NICKNAME") THEN parseNicknameToken(v, token)
    ELSE IF key = S("PHOTO") THEN parseImageToken(v, token, setPhoto)
    ELSE IF key = S("BDAY") THEN parseBDayToken(v, token)
    ELSE IF key = S("ANNIVERSARY") THEN parseAnniversaryToken(v, token)
    ELSE IF key = S("GENDER") THEN parseGenderToken(v, token)
    ELSE IF key = S("ADR") THEN parseAddressToken(v, token)
    ELSE IF key = S("TEL") THEN parsePhoneToken(v, token)
    ELSE IF key = S("EMAIL") THEN parseEmailToken(v, token)
    ELSE IF key = S("IMPP") THEN parseIMToken(v, token)
    ELSE IF key = S("TITLE") THEN parseTitleToken(v, token)
    ELSE IF key = S("ROLE") THEN parseRoleToken(v, token)
    ELSE IF key = S("LOGO") THEN parseImageToken(v, token, setLogo)
    ELSE IF key = S("ORG") THEN parseOrgToken(v, token)
    ELSE IF key = S("NOTE") THEN parseNoteToken(v, token)
    ELSE IF key = S("URL") THEN parseURLToken(v, token)
    ELSE Ok(v)

\* The loop of parse(): the tokens in order, up to the first throw.
RECURSIVE ParseLoop(_, _, _, _)
ParseLoop(tokens, lo, hi, r) ==
    IF lo > hi \/ r.err # "" THEN r
    ELSE IF lo = hi THEN parseToken(r.v, tokens[lo])
    ELSE LET mid == (lo + hi) \div 2
             left == ParseLoop(tokens, lo, mid, r)
         IN IF left.err # "" THEN left ELSE ParseLoop(tokens, mid + 1, hi, left)

ParseTokens(v, tokens) == ParseLoop(tokens, 1, Len(tokens), Ok(v))

\* begin and end of parse(): key BEGIN or END, first value VCARD.
IsBracket(token, key) ==
    /\ toUpperCase(token.key) = key
    /\ Len(token.values) > 0
    /\ toUpperCase(token.values[1]) = S("VCARD")

\* parse() from the tokenizer's result t on.
ParseFrom(t, vcard) ==
    LET n == Len(t.tokens)
        tokens == SubSeq(t.tokens, 2, n - 1)
    IN IF t.err # "" THEN Throw(vcard, t.err)
       ELSE IF n = 0 THEN Throw(vcard, "TypeError")
       ELSE IF ~IsBracket(t.tokens[1], S("BEGIN")) THEN Throw(vcard, "Invalid vCard")
       ELSE IF n < 2 THEN Throw(vcard, "TypeError")
       ELSE IF ~IsBracket(t.tokens[n], S("END")) THEN Throw(vcard, "Invalid vCard")
       ELSE IF tokens = <<>> THEN Throw(vcard, "TypeError")
       ELSE IF toUpperCase(tokens[1].key) # S("VERSION")
            THEN Throw(vcard, "Version missing or out of place.")
       ELSE ParseTokens(vcard, tokens)

\* new VCardParser(text, vcard): parse() on the contact given.
parse(text, vcard) == ParseFrom(tokenizeVcardString(text), vcard)

(***************************************************************************)
(* The state: a contact and the calls made on it by a caller that builds   *)
(* it with the setters, renders it, decodes the text into a fresh contact  *)
(* and renders that one.                                                   *)
(***************************************************************************)

VARIABLES
    vcard,      \* the contact of the caller
    op,         \* the operation called last
    err,        \* the message of the error it threw, "" when it returned
    valid,      \* whether the argument of the last setter call was drawn
                \* from the valid inputs
    clean,      \* whether the argument of every setter call so far was
    pref,       \* the pref argument of the call (FALSE when it has none)
    calls,      \* the number of setter calls made
    pc,         \* how far the caller is
    out,        \* what render() of vcard gave
    back,       \* what decoding out.text into a new VCard gave
    out2,       \* what render() of the decoded contact gave
    lastPref,   \* per category, the index of the entry added by the last
                \* call that passed pref = true and returned (0: none yet)
    doc,        \* the lines of a document being written
    input,      \* the code points and %...% tokens of a text value
    escaped, unescaped, formatted, unfolded,
    tokens      \* what tokenizeVcardString of a text gave

cardVars == <<vcard, op, err, valid, clean, pref, calls>>
tripVars == <<out, back, out2>>
textVars == <<input, escaped, unescaped, formatted, unfolded, tokens>>
vars == <<vcard, op, err, valid, clean, pref, calls, pc, out, back, out2, lastPref,
          doc, input, escaped, unescaped, formatted, unfolded, tokens>>

NoText == [text |-> None, err |-> ""]
NoPref == [tel |-> 0, email |-> 0, impp |-> 0]
NoTokens == [tokens |-> <<>>, err |-> ""]

\* The variables a specification does not use.
IdleTrip == out = NoText /\ back = Ok(NewVCard) /\ out2 = NoText
IdleText ==
    /\ input = <<>> /\ escaped = None /\ unescaped = None
    /\ formatted = None /\ unfolded = None /\ tokens = NoTokens

(***************************************************************************)
(* The arguments of the calls                                              *)
(***************************************************************************)

MaxCalls == 2
LongLen == 72

LongText == [i \in 1..LongLen |-> "a"]
ADate == [isDate |-> TRUE, date |-> <<1989, 1, 17, 5, 0, 0>>]
NotADate == [isDate |-> FALSE, date |-> <<0, 0, 0, 0, 0, 0>>]

GoodVersions == {3, 4}
BadVersions == {5}
Names == {S("Ann  Lee"), S("Bo")}
Nicknames == {S("Moon"), LongText}
GoodKinds == {S(" Org")}
BadKinds == {S("animal")}
GoodURIs == {S("data:image/png;base64,QUJD")}
BadURIs == {S("photo.jpg")}
GoodGenders == {S("M")}
BadGenders == {S("boy")}
Idents == {None, Some(S("Funky"))}
Labels == {<<>>, S("Home, sweet")}
Phones == {S("8136160999"), S("8675309")}
GoodTypes == {<<>>, <<S("cell"), S("voice")>>}
BadTypes == {<<S("phone")>>}
Exts == {<<>>, S("12")}
GoodEmails == {S("Ann@b.co")}
BadEmails == {S("not an email")}
GoodProtocols == {S("sip")}
BadProtocols == {S("icq")}
Titles == {S("Boss")}
Roles == {S("Chef: pastry")}
Orgs == {<<S("Acme, Inc"), S("Lab")>>}
Notes == {<<"C", ":", BS, "n", "e", "w">>}
URLs == {S("http://a.co/?x=1;y=2"), LongText}

\* A contact that holds a name, a kind, a gender, an anniversary and an
\* instant-message entry.
PresetCard ==
    setIM(setAnniversary(setGender(setKind(setName(NewVCard, S("Ann Lee")).v,
        S("individual")).v, S("M"), None).v, ADate).v,
        S("rob@out.com"), S("sip"), TRUE).v

InitCard ==
    /\ vcard \in {NewVCard, PresetCard}
    /\ op = "new" /\ err = "" /\ valid = TRUE /\ clean = TRUE
    /\ pref = FALSE /\ calls = 0
    /\ pc = "build"
    /\ IdleTrip /\ IdleText
    /\ lastPref = NoPref /\ doc = <<>>

(***************************************************************************)
(* The setter calls.  A call leaves the contact as the setter left it,     *)
(* thrown or returned.                                                     *)
(***************************************************************************)

Call(name, r, isValid, p) ==
    /\ pc = "build"
    /\ calls < MaxCalls
    /\ vcard' = r.v
    /\ err' = r.err
    /\ op' = name
    /\ valid' = isValid
    /\ clean' = (clean /\ isValid)
    /\ pref' = p
    /\ calls' = calls + 1
    /\ UNCHANGED <<pc, tripVars, lastPref, doc, textVars>>

SetVersion ==
    \E version \in GoodVersions \cup BadVersions :
        Call("setVersion", setVersion(vcard, version), version \in GoodVersions, FALSE)

SetName ==
    \E name \in Names : Call("setName", setName(vcard, name), TRUE, FALSE)

SetNickname ==
    \E nickname \in Nicknames :
        Call("setNickname", setNickname(vcard, nickname), TRUE, FALSE)

SetKind ==
    \E kind \in GoodKinds \cup BadKinds :
        Call("setKind", setKind(vcard, kind), kind \in GoodKinds, FALSE)

SetPhoto ==
    \E dataURI \in GoodURIs \cup BadURIs :
        Call("setPhoto", setPhoto(vcard, dataURI), dataURI \in GoodURIs, FALSE)

SetBday ==
    \E bday \in {ADate, NotADate} :
        Call("setBday", setBday(vcard, bday), bday = ADate, FALSE)

SetAnniversary ==
    \E anniversary \in {ADate, NotADate} :
        Call("setAnniversary", setAnniversary(vcard, anniversary),
             anniversary = ADate, FALSE)

SetGender ==
    \E gender \in GoodGenders \cup BadGenders, ident \in Idents :
        Call("setGender", setGender(vcard, gender, ident),
             gender \in GoodGenders, FALSE)

SetAddress ==
    \E label \in Labels :
        Call("setAddress",
             setAddress(vcard, S("1 Main St"), S("Town"), S("FL"), S("33584"),
                        S("USA"), label),
             TRUE, FALSE)

SetPhone ==
    \E phone \in Phones, ext \in Exts, type \in GoodTypes \cup BadTypes,
       p \in BOOLEAN :
        Call("setPhone", setPhone(vcard, phone, ext, type, p),
             type \in GoodTypes, p)

SetEmail ==
    \E email \in GoodEmails \cup BadEmails, p \in BOOLEAN :
        Call("setEmail", setEmail(vcard, email, p), email \in GoodEmails, p)

SetIM ==
    \E protocol \in GoodProtocols \cup BadProtocols, p \in BOOLEAN :
        Call("setIM", setIM(vcard, S("rob@out.com"), protocol, p),
             protocol \in GoodProtocols, p)

SetTitle ==
    \E title \in Titles : Call("setTitle", setTitle(vcard, title), TRUE, FALSE)

SetRole ==
    \E role \in Roles : Call("setRole", setRole(vcard, role), TRUE, FALSE)

SetLogo ==
    \E dataURI \in GoodURIs \cup BadURIs :
        Call("setLogo", setLogo(vcard, dataURI), dataURI \in GoodURIs, FALSE)

SetOrg ==
    \E orgs \in Orgs : Call("setOrg", setOrg(vcard, orgs), TRUE, FALSE)

SetNote ==
    \E note \in Notes : Call("setNote", setNote(vcard, note), TRUE, FALSE)

SetURL ==
    \E url \in URLs : Call("setURL", setURL(vcard, url), TRUE, FALSE)

\* text = await vcard.render()
Render ==
    /\ pc = "build"
    /\ out' = render(vcard)
    /\ op' = "render"
    /\ err' = out'.err
    /\ pc' = "rendered"
    /\ UNCHANGED <<vcard, valid, clean, pref, calls, back, out2, lastPref, doc,
                   textVars>>

\* new VCardParser(text, new VCard())
Decode ==
    /\ pc = "rendered"
    /\ out.text # None
    /\ back' = parse(out.text[1], NewVCard)
    /\ op' = "decode"
    /\ err' = back'.err
    /\ pc' = "decoded"
    /\ UNCHANGED <<vcard, valid, clean, pref, calls, out, out2, lastPref, doc,
                   textVars>>

\* await decoded.render()
Rerender ==
    /\ pc = "decoded"
    /\ back.err = ""
    /\ out2' = render(back.v)
    /\ op' = "rerender"
    /\ err' = out2'.err
    /\ pc' = "rerendered"
    /\ UNCHANGED <<vcard, valid, clean, pref, calls, out, back, lastPref, doc,
                   textVars>>

NextCard ==
    \/ SetVersion \/ SetName \/ SetNickname \/ SetKind \/ SetPhoto \/ SetBday
    \/ SetAnniversary \/ SetGender \/ SetAddress \/ SetPhone \/ SetEmail
    \/ SetIM \/ SetTitle \/ SetRole \/ SetLogo \/ SetOrg \/ SetNote \/ SetURL
    \/ Render \/ Decode \/ Rerender

Spec == InitCard /\ [][NextCard]_vars

(***************************************************************************)
(* Properties of the rendered text                                         *)
(***************************************************************************)

\* The physical lines of a text.
PhysicalLines(text) == SplitOn(text, NL)

RECURSIVE SumBytes(_, _, _)
SumBytes(cps, lo, hi) ==
    IF lo > hi THEN 0
    ELSE IF lo = hi THEN Utf8Bytes(cps[lo])
    ELSE LET mid == (lo + hi) \div 2 IN
         SumBytes(cps, lo, mid) + SumBytes(cps, mid + 1, hi)

\* The length of a line in UTF-8.
LineBytes(line) ==
    LET cps == CodePoints(line) IN SumBytes(cps, 1, Len(cps))

\* How many physical lines of text are lines of the property key.
CountKey(text, key) ==
    LET lines == PhysicalLines(text) IN
    Cardinality({i \in 1..Len(lines) :
        \/ StartsWith(lines[i], key \o <<":">>)
        \/ StartsWith(lines[i], key \o <<";">>)})

\* C1: for a contact built by valid setter calls only that renders, the
\* decoding of the text into a fresh contact succeeds, and the rendering of
\* the decoded contact is the text of the first rendering.
C1_RoundTrip ==
    clean =>
        /\ (pc = "decoded" => back.err = "")
        /\ (pc = "rerendered" => out2 = out)

\* C4: no physical line of a rendered text is longer than 75 bytes of
\* UTF-8.
C4_FoldingBound ==
    (pc # "build" /\ out.text # None) =>
        \A i \in 1..Len(PhysicalLines(out.text[1])) :
            LineBytes(PhysicalLines(out.text[1])[i]) <= max_line_bytes

ValidatedSetters ==
    {"setVersion", "setKind", "setGender", "setPhone", "setEmail", "setIM",
     "setPhoto", "setLogo", "setBday", "setAnniversary"}

\* C6: a call of a validated setter with an invalid argument throws and
\* leaves the contact as it was, the pref flags of its entries too.
C6_RejectionLeavesContact ==
    [][(calls' = calls + 1 /\ op' \in ValidatedSetters /\ ~valid')
          => (err' # "" /\ vcard' = vcard)]_vars

\* A setPhone call with an invalid type and pref = true was rejected on a
\* contact that holds a preferred phone entry.
C6_Witness ==
    /\ op = "setPhone" /\ ~valid /\ pref /\ err # ""
    /\ \E i \in 1..Len(vcard.tel) : vcard.tel[i].pref

\* C7: render throws and gives no text when the contact has no name, under
\* either version, and when it is of version 4 and has no kind; a contact of
\* version 3 with a name and no kind renders.
C7_MandatoryFields ==
    op = "render" =>
        /\ (Len(vcard.name) = 0 => (out.text = None /\ err # ""))
        /\ ((vcard.specVersion = 4 /\ vcard.kind = None)
               => (out.text = None /\ err # ""))
        /\ ((vcard.specVersion = 3 /\ Len(vcard.name) > 0 /\ vcard.kind = None)
               => (out.text # None /\ err = ""))

\* render was called on a contact of version 3 that has a kind and no name.
C7_Witness ==
    /\ op = "render" /\ vcard.specVersion = 3
    /\ Len(vcard.name) = 0 /\ vcard.kind # None

\* A contact that holds an anniversary, a gender, a kind and at least one
\* instant-message entry.
HoldsGated(v) ==
    /\ v.anniversary # None /\ v.gender # None /\ v.kind # None
    /\ Len(v.impp) >= 1

\* C8: the text rendered from such a contact has no ANNIVERSARY, GENDER,
\* KIND or IMPP line under version 3, and under version 4 one ANNIVERSARY,
\* one GENDER and one KIND line, and one IMPP line for every
\* instant-message entry.
C8_VersionGating ==
    (op = "render" /\ out.text # None /\ HoldsGated(vcard)) =>
        LET text == out.text[1]
            n == IF vcard.specVersion = 3 THEN 0 ELSE 1
        IN /\ vcard.specVersion \in {3, 4}
           /\ CountKey(text, S("ANNIVERSARY")) = n
           /\ CountKey(text, S("GENDER")) = n
           /\ CountKey(text, S("KIND")) = n
           /\ CountKey(text, S("IMPP")) = n * Len(vcard.impp)

\* A contact of version 3 that holds the four and two instant-message
\* entries was rendered.
C8_Witness ==
    /\ op = "render" /\ out.text # None /\ HoldsGated(vcard)
    /\ vcard.specVersion = 3 /\ Len(vcard.impp) >= 2

(***************************************************************************)
(* Sequences of setPhone, setEmail and setIM calls on a new contact        *)
(***************************************************************************)

MaxPrefCalls == 3

InitPref ==
    /\ vcard = NewVCard
    /\ op = "new" /\ err = "" /\ valid = TRUE /\ clean = TRUE
    /\ pref = FALSE /\ calls = 0
    /\ pc = "build"
    /\ IdleTrip /\ IdleText
    /\ lastPref = NoPref /\ doc = <<>>

PrefCall(name, r, isValid, p, last) ==
    /\ calls < MaxPrefCalls
    /\ vcard' = r.v
    /\ err' = r.err
    /\ op' = name
    /\ valid' = isValid
    /\ clean' = (clean /\ isValid)
    /\ pref' = p
    /\ calls' = calls + 1
    /\ lastPref' = IF p /\ r.err = "" THEN last ELSE lastPref
    /\ UNCHANGED <<pc, tripVars, doc, textVars>>

AddPhone ==
    \E phone \in Phones, type \in GoodTypes \cup BadTypes, p \in BOOLEAN :
        LET r == setPhone(vcard, phone, <<>>, type, p) IN
        PrefCall("setPhone", r, type \in GoodTypes, p,
                 [lastPref EXCEPT !.tel = Len(r.v.tel)])

AddEmail ==
    \E email \in GoodEmails \cup BadEmails, p \in BOOLEAN :
        LET r == setEmail(vcard, email, p) IN
        PrefCall("setEmail", r, email \in GoodEmails, p,
                 [lastPref EXCEPT !.email = Len(r.v.email)])

AddIM ==
    \E protocol \in GoodProtocols \cup BadProtocols, p \in BOOLEAN :
        LET r == setIM(vcard, S("rob@out.com"), protocol, p) IN
        PrefCall("setIM", r, protocol \in GoodProtocols, p,
                 [lastPref EXCEPT !.impp = Len(r.v.impp)])

NextPref == AddPhone \/ AddEmail \/ AddIM

SpecPref == InitPref /\ [][NextPref]_vars

\* Only entry number last of the list, if any, has pref = true, and it has
\* when a call passed pref = true.
OnlyPreferred(list, last) ==
    /\ \A i \in 1..Len(list) : list[i].pref => i = last
    /\ last # 0 => (last <= Len(list) /\ list[last].pref)

\* C2: after any sequence of setPhone, setEmail and setIM calls, each of
\* the three lists holds at most one entry with pref = true, and once a call
\* of the category has passed pref = true and added its entry, the entry
\* with the flag is the one the most recent such call added.
C2_PreferredExclusive ==
    /\ OnlyPreferred(vcard.tel, lastPref.tel)
    /\ OnlyPreferred(vcard.email, lastPref.email)
    /\ OnlyPreferred(vcard.impp, lastPref.impp)

\* Three phone entries, the second added by the last call with pref = true
\* and the third by a call with pref = false after it.
C2_Witness ==
    /\ Len(vcard.tel) = 3 /\ lastPref.tel = 2
    /\ vcard.tel[2].pref /\ ~vcard.tel[3].pref

(***************************************************************************)
(* Text values: a value is escaped and unescaped, then formatted (escaped  *)
(* and folded) and unfolded.                                               *)
(***************************************************************************)

MaxTail == 2
FoldMargin == 2

\* The pieces a value is made of: code points of one to four bytes, the
\* reserved characters, a lone surrogate, and the %...% tokens.
Atoms ==
    {<<"a">>, <<"n">>, <<",">>, <<";">>, <<":">>, <<BS>>, <<NL>>, <<SP>>,
     <<E9>>, <<EURO>>, <<HS, LS>>, <<HS>>, <<"%">>, S("%COM%"), S("%BAC%")}

Tails == UNION {[1..n -> Atoms] : n \in 0..MaxTail}

\* The lengths of the run of letters before the tail: none, and those that
\* bring the tail to the fold.
Pads == {0} \cup ((max_line_bytes - FoldMargin)..max_line_bytes)

\* The string of a value.
StringOf(pieces) == Flatten(pieces)

InitText ==
    /\ \E k \in Pads, tail \in Tails : input = [i \in 1..k |-> <<"a">>] \o tail
    /\ escaped = None /\ unescaped = None /\ formatted = None /\ unfolded = None
    /\ tokens = NoTokens
    /\ pc = "text"
    /\ vcard = NewVCard
    /\ op = "new" /\ err = "" /\ valid = TRUE /\ clean = TRUE
    /\ pref = FALSE /\ calls = 0
    /\ IdleTrip
    /\ lastPref = NoPref /\ doc = <<>>

\* The escape step of formatTextValue on every code point of str.
escape(str) ==
    LET chars == CodePoints(str) IN
    Flatten([i \in 1..Len(chars) |-> EscapeChar(chars[i])])

Escape ==
    /\ pc = "text"
    /\ escaped' = Some(escape(StringOf(input)))
    /\ pc' = "escaped"
    /\ op' = "escape"
    /\ UNCHANGED <<vcard, err, valid, clean, pref, calls, tripVars, lastPref,
                   doc, input, unescaped, formatted, unfolded, tokens>>

Unescape ==
    /\ pc = "escaped"
    /\ unescaped' = Some(unesc(escaped[1]))
    /\ pc' = "unescaped"
    /\ op' = "unesc"
    /\ UNCHANGED <<vcard, err, valid, clean, pref, calls, tripVars, lastPref,
                   doc, input, escaped, formatted, unfolded, tokens>>

FormatText ==
    /\ pc = "unescaped"
    /\ formatted' = Some(formatTextValue(StringOf(input)))
    /\ pc' = "formatted"
    /\ op' = "formatTextValue"
    /\ UNCHANGED <<vcard, err, valid, clean, pref, calls, tripVars, lastPref,
                   doc, input, escaped, unescaped, unfolded, tokens>>

UnfoldText ==
    /\ pc = "formatted"
    /\ unfolded' = Some(Unfold(formatted[1]))
    /\ pc' = "unfolded"
    /\ op' = "unfold"
    /\ UNCHANGED <<vcard, err, valid, clean, pref, calls, tripVars, lastPref,
                   doc, input, escaped, unescaped, formatted, tokens>>

NextText == Escape \/ Unescape \/ FormatText \/ UnfoldText

SpecText == InitText /\ [][NextText]_vars

LogicalPiece(atom) ==
    IF Len(atom) = 5 THEN TokenAt(CodePoints(atom), 1) ELSE EscapeChar(atom)

LogicalPieces(pieces) == [i \in 1..Len(pieces) |-> LogicalPiece(pieces[i])]

\* Reading text from st.pos: a continuation marker or none, then piece i
\* whole.
WholeStep(text, pieces, i, st) ==
    LET marked == st.pos + 1 <= Len(text)
                  /\ text[st.pos] = NL /\ text[st.pos + 1] = SP
        from == IF marked THEN st.pos + 2 ELSE st.pos
        to == from + Len(pieces[i]) - 1
    IN [pos |-> to + 1,
        ok |-> st.ok /\ to <= Len(text) /\ SubSeq(text, from, to) = pieces[i]]

RECURSIVE WholeLoop(_, _, _, _, _)
WholeLoop(text, pieces, lo, hi, st) ==
    IF lo > hi \/ ~st.ok THEN st
    ELSE IF lo = hi THEN WholeStep(text, pieces, lo, st)
    ELSE LET mid == (lo + hi) \div 2
             left == WholeLoop(text, pieces, lo, mid, st)
         IN IF left.ok THEN WholeLoop(text, pieces, mid + 1, hi, left) ELSE left

\* text is the pieces in order, each in one piece, with continuation
\* markers between pieces only.
FoldsBetween(text, pieces) ==
    LET st == WholeLoop(text, pieces, 1, Len(pieces), [pos |-> 1, ok |-> TRUE])
    IN st.ok /\ st.pos = Len(text) + 1

\* C5: the output of formatTextValue with its continuation markers deleted
\* is the escaped logical line of the input, and no marker stands inside a
\* code point or an escape pair.
C5_UnfoldingInverse ==
    pc = "unfolded" =>
        /\ unfolded[1] = Flatten(LogicalPieces(input))
        /\ FoldsBetween(formatted[1], LogicalPieces(input))

\* A value was folded just before a code point of four bytes and unfolded.
C5_Witness ==
    /\ pc = "unfolded"
    /\ \E i \in 3..Len(formatted[1]) :
          /\ formatted[1][i - 2] = NL /\ formatted[1][i - 1] = SP
          /\ formatted[1][i] = HS
          /\ i < Len(formatted[1]) /\ formatted[1][i + 1] = LS

(***************************************************************************)
(* Documents: a caller writes a document line by line and decodes it into  *)
(* a new contact.                                                          *)
(***************************************************************************)

MaxLines == 5

BeginLine == S("BEGIN:VCARD")
EndLine == S("END:VCARD")
VersionLines == {S("VERSION:3.0"), S("VERSION:4.0")}

DocLines ==
    {BeginLine, EndLine, S("VERSION:2.0"), S("FN:Ann Lee"), S("FN"),
     S("PHOTO;ENCODING=b:QUJD")} \cup VersionLines

InitDoc ==
    /\ doc = <<>>
    /\ vcard = NewVCard
    /\ op = "new" /\ err = "" /\ valid = TRUE /\ clean = TRUE
    /\ pref = FALSE /\ calls = 0
    /\ pc = "build"
    /\ IdleTrip /\ IdleText
    /\ lastPref = NoPref

AddLine ==
    /\ pc = "build"
    /\ Len(doc) < MaxLines
    /\ \E line \in DocLines : doc' = Append(doc, line)
    /\ op' = "write"
    /\ UNCHANGED <<vcard, err, valid, clean, pref, calls, pc, tripVars,
                   lastPref, textVars>>

\* new VCardParser(doc.join("\n"), vcard)
DecodeDoc ==
    /\ pc = "build"
    /\ doc # <<>>
    /\ LET r == parse(Join(doc, <<NL>>), vcard) IN
          vcard' = r.v /\ err' = r.err
    /\ op' = "decode"
    /\ pc' = "decoded"
    /\ UNCHANGED <<valid, clean, pref, calls, tripVars, lastPref, doc, textVars>>

NextDoc == AddLine \/ DecodeDoc

SpecDoc == InitDoc /\ [][NextDoc]_vars

IsVersionLine(line) == StartsWith(toUpperCase(line), S("VERSION"))

\* C9: a document is decoded only if its first line is BEGIN:VCARD, its
\* last line END:VCARD and the line after BEGIN is VERSION:3.0 or
\* VERSION:4.0, and no document with a VERSION line anywhere else is
\* decoded.
C9_StructuralRejection ==
    (pc = "decoded" /\ err = "") =>
        /\ Len(doc) >= 3
        /\ doc[1] = BeginLine
        /\ Last(doc) = EndLine
        /\ doc[2] \in VersionLines
        /\ \A i \in 3..Len(doc) : ~IsVersionLine(doc[i])

\* C10: after a decode that failed, the contact given to the decoder holds
\* what it held before the decode, which is what a new contact holds.
C10_AtomicDecode ==
    (pc = "decoded" /\ err # "") => vcard = NewVCard

(***************************************************************************)
(* Lines of unrecognized keys: a caller inserts such lines into a document *)
(* that decodes, between its VERSION line and its END line, and decodes    *)
(* the document into a new contact.                                        *)
(***************************************************************************)

MaxInserts == 2

BaseDocs ==
    {<<BeginLine, S("VERSION:3.0"), S("FN:Ann Lee"),
       S("item1.ADR:;;1 Main St;Town;FL;33584;USA"), S("item1.X-ABLabel:Home"),
       EndLine>>,
     <<BeginLine, S("VERSION:4.0"), S("KIND:individual"), S("FN:Ann Lee"),
       S("TEL;VALUE=uri;PREF=1;TYPE=cell:tel:+1-813-616-0999"), EndLine>>}

\* Lines of a key parseToken has no case for: bare, with a parameter, with
\* the group prefix of a line of the document, with a group prefix of its
\* own.
UnknownLines ==
    {S("X-FOO:bar"), S("X-FOO;A=b,c:bar;baz"), S("item1.X-FOO:bar"),
     S("item9.X-FOO:bar")}

InitIgnore ==
    /\ doc \in BaseDocs
    /\ vcard = NewVCard
    /\ op = "new" /\ err = "" /\ valid = TRUE /\ clean = TRUE
    /\ pref = FALSE /\ calls = 0
    /\ pc = "build"
    /\ IdleTrip /\ IdleText
    /\ lastPref = NoPref

\* The caller puts a line after line k of the document, k from the VERSION
\* line to the line before END.
InsertLine ==
    /\ pc = "build"
    /\ calls < MaxInserts
    /\ \E line \in UnknownLines, k \in 2..(Len(doc) - 1) :
          doc' = Take(doc, k) \o <<line>> \o Drop(doc, k)
    /\ calls' = calls + 1
    /\ op' = "insert"
    /\ UNCHANGED <<vcard, err, valid, clean, pref, pc, tripVars, lastPref,
                   textVars>>

NextIgnore == InsertLine \/ DecodeDoc

SpecIgnore == InitIgnore /\ [][NextIgnore]_vars

\* The document without the inserted lines.
WithoutUnknown(lines) == SelectSeq(lines, LAMBDA l : l \notin UnknownLines)

\* C11: a document that decodes still decodes, and to the same contact,
\* after lines of unrecognized keys (bare, with parameters, with a group
\* prefix) are inserted between its VERSION line and its END line.
C11_UnknownIgnored ==
    pc = "decoded" =>
        /\ err = ""
        /\ vcard = parse(Join(WithoutUnknown(doc), <<NL>>), NewVCard).v

(***************************************************************************)
(* Grouped lines: a caller writes lines, some of them with a group label,  *)
(* and tokenizes the text.                                                 *)
(***************************************************************************)

MaxGroupLines == 4

GroupLines ==
    {S("FN:Bo"), S("item1.ADR:;;1 Main St"), S("item1.X-ABLabel:Home"),
     S("item2.TEL;TYPE=cell:1"), S("item1.EMAIL:a@b.co"),
     S("hasOwnProperty.NOTE:x"), S("__proto__.NOTE:y")}

InitGroup ==
    /\ doc = <<>>
    /\ vcard = NewVCard
    /\ op = "new" /\ err = "" /\ valid = TRUE /\ clean = TRUE
    /\ pref = FALSE /\ calls = 0
    /\ pc = "build"
    /\ IdleTrip /\ IdleText
    /\ lastPref = NoPref

AddGroupLine ==
    /\ pc = "build"
    /\ Len(doc) < MaxGroupLines
    /\ \E line \in GroupLines : doc' = Append(doc, line)
    /\ op' = "write"
    /\ UNCHANGED <<vcard, err, valid, clean, pref, calls, pc, tripVars,
                   lastPref, textVars>>

\* tokens = parser.tokenizeVcardString(doc.join("\n"))
TokenizeDoc ==
    /\ pc = "build"
    /\ doc # <<>>
    /\ tokens' = tokenizeVcardString(Join(doc, <<NL>>))
    /\ err' = tokens'.err
    /\ op' = "tokenize"
    /\ pc' = "tokenized"
    /\ UNCHANGED <<vcard, valid, clean, pref, calls, tripVars, lastPref, doc,
                   input, escaped, unescaped, formatted, unfolded>>

NextGroup == AddGroupLine \/ TokenizeDoc

SpecGroup == InitGroup /\ [][NextGroup]_vars

\* The group label of a key (nothing when the key has none) and the bare
\* property name after it.
GroupLabel(key) ==
    IF IsIn(".", key) THEN Some(Take(key, FirstIndex(key, ".") - 1)) ELSE None
BareKey(key) ==
    IF IsIn(".", key) THEN Drop(key, FirstIndex(key, ".")) ELSE key

\* Line i is the first of the lines lt that carries its label.
FirstOfGroup(lt, i) ==
    /\ GroupLabel(lt[i].key) # None
    /\ \A j \in 1..(i - 1) : GroupLabel(lt[j].key) # GroupLabel(lt[i].key)

\* The parameter a later line of a group leaves on the group's token.
GroupParameter(t) ==
    [property |-> IF BareKey(t.key) = S("X-ABLabel") THEN S("LABEL")
                  ELSE BareKey(t.key),
     values |-> t.values]

\* The token of line i, with the parameters of the later lines of its
\* group when it is the first of a group.
MergedToken(lt, i) ==
    LET later == SelectSeq([j \in 1..Len(lt) |-> j],
                   LAMBDA j : j > i /\ GroupLabel(lt[j].key) = GroupLabel(lt[i].key))
    IN IF GroupLabel(lt[i].key) = None THEN lt[i]
       ELSE [key |-> BareKey(lt[i].key),
             props |-> lt[i].props
                       \o [k \in 1..Len(later) |-> GroupParameter(lt[later[k]])],
             values |-> lt[i].values]

\* The tokens of the ungrouped lines and of the first line of every group,
\* in line order.
MergedTokens(lt) ==
    LET kept == SelectSeq([i \in 1..Len(lt) |-> i],
                  LAMBDA i : GroupLabel(lt[i].key) = None \/ FirstOfGroup(lt, i))
    IN [k \in 1..Len(kept) |-> MergedToken(lt, kept[k])]

\* C12: the tokenizer gives, for every sequence of lines, the tokens of the
\* ungrouped lines and one token per group label, in line order: the token
\* of the group's first line under its bare key, with one more parameter for
\* every later line of the group, named by that line's bare key (LABEL for
\* X-ABLabel) and holding its values.
C12_GroupMerging ==
    pc = "tokenized" =>
        /\ tokens.err = ""
        /\ tokens.tokens = MergedTokens(TokensOf(LineTokens(doc)).tokens)
        /\ \A k \in 1..Len(tokens.tokens) : ~IsIn(".", tokens.tokens[k].key)

(***************************************************************************)
(* ADR lines: a document of a BEGIN, a VERSION, an ADR and an END line is  *)
(* decoded into a new contact.  input holds what the ADR line was written  *)
(* from: the label first (empty: no LABEL parameter), then the components  *)
(* from the street on.                                                     *)
(***************************************************************************)

MaxComponents == 5

AdrValues == {<<>>, S("1 Main St"), S("FL")}
AdrLabels == {<<>>, S("Home")}
AdrComponents == UNION {[1..n -> AdrValues] : n \in 0..MaxComponents}

\* The line as render writes it: the post office box and the extended
\* address empty, then the components.
AdrLine(label, components) ==
    S("ADR") \o (IF label = <<>> THEN <<>> ELSE S(";LABEL=") \o label)
    \o S(":;;") \o Join(components, <<";">>)

InitAdr ==
    /\ \E label \in AdrLabels, components \in AdrComponents,
          version \in VersionLines :
          /\ input = <<label>> \o components
          /\ doc = <<BeginLine, version, AdrLine(label, components), EndLine>>
    /\ escaped = None /\ unescaped = None /\ formatted = None /\ unfolded = None
    /\ tokens = NoTokens
    /\ vcard = NewVCard
    /\ op = "new" /\ err = "" /\ valid = TRUE /\ clean = TRUE
    /\ pref = FALSE /\ calls = 0
    /\ pc = "build"
    /\ IdleTrip
    /\ lastPref = NoPref

NextAdr == DecodeDoc

SpecAdr == InitAdr /\ [][NextAdr]_vars

\* Component k of the line, empty when the line has fewer.
AdrComponent(k) == IF k + 1 <= Len(input) THEN input[k + 1] ELSE <<>>

\* C13: decoding an ADR line stores one address whose street, city, state,
\* zip and country are the components of the line at their positions, an
\* empty or missing one stored as empty, and whose label is the value of the
\* LABEL parameter, empty when the line has none.
C13_AdrMapping ==
    pc = "decoded" =>
        /\ err = ""
        /\ Len(vcard.address) = 1
        /\ vcard.address[1] =
             [street |-> AdrComponent(1), city |-> AdrComponent(2),
              state |-> AdrComponent(3), zip |-> AdrComponent(4),
              country |-> AdrComponent(5), label |-> input[1]]

(***************************************************************************)
(* Logical lines: a line is written from pieces and tokenized.             *)
(***************************************************************************)

MaxPieces == 5

\* The pieces of a line: letters, the separators, the escaped separators
\* and a parameter.
LineAtoms ==
    {<<"K">>, <<"v">>, <<":">>, <<";">>, <<",">>, <<BS, ":">>, <<BS, ";">>,
     <<BS, ",">>, S("P=x")}

LinesOfPieces == UNION {[1..n -> LineAtoms] : n \in 1..MaxPieces}

InitLine ==
    /\ input \in LinesOfPieces
    /\ escaped = None /\ unescaped = None /\ formatted = None /\ unfolded = None
    /\ tokens = NoTokens
    /\ doc = <<>>
    /\ vcard = NewVCard
    /\ op = "new" /\ err = "" /\ valid = TRUE /\ clean = TRUE
    /\ pref = FALSE /\ calls = 0
    /\ pc = "build"
    /\ IdleTrip
    /\ lastPref = NoPref

\* tokens = parser.tokenizeVcardString(line)
TokenizeText ==
    /\ pc = "build"
    /\ tokens' = tokenizeVcardString(StringOf(input))
    /\ err' = tokens'.err
    /\ op' = "tokenize"
    /\ pc' = "tokenized"
    /\ UNCHANGED <<vcard, valid, clean, pref, calls, tripVars, lastPref, doc,
                   input, escaped, unescaped, formatted, unfolded>>

NextLine == TokenizeText

SpecLine == InitLine /\ [][NextLine]_vars

\* Unit i of str is escaped: the unit before it is a backslash that is not
\* escaped itself.
RECURSIVE Escaped(_, _)
Escaped(str, i) == i > 1 /\ str[i - 1] = BS /\ ~Escaped(str, i - 1)

\* The indices of the occurrences of c in str that are not escaped.
UnescapedAt(str, c) ==
    SelectSeq([i \in 1..Len(str) |-> i], LAMBDA i : str[i] = c /\ ~Escaped(str, i))

\* The pieces of str between the occurrences at, the empty ones too; an
\* empty str has none.
PiecesBetween(str, at) ==
    IF str = <<>> THEN <<>>
    ELSE [k \in 1..(Len(at) + 1) |->
            SubSeq(str, IF k = 1 THEN 1 ELSE at[k - 1] + 1,
                        IF k = Len(at) + 1 THEN Len(str) ELSE at[k] - 1)]

SplitUnescaped(str, c) == PiecesBetween(str, UnescapedAt(str, c))

\* The token of line, which has its first unescaped colon at index colon,
\* is the one of the claim.
SplitAtColon(line, colon, token) ==
    /\ token.key # <<>>
    /\ token.key = unesc(Head(SplitUnescaped(Take(line, colon - 1), ";") \o <<<<>>>>))
    /\ token.values = UnescAll(SplitUnescaped(Drop(line, colon), ";"))

\* C14: the token of a line that has an unescaped colon has a non-empty
\* key, read from the part of the line before the first unescaped colon,
\* and its values are the pieces of the part after it between the unescaped
\* semicolons, in order, each unescaped.
C14_TokenizerSplitting ==
    (pc = "tokenized" /\ tokens.err = ""
       /\ UnescapedAt(StringOf(input), ":") # <<>>) =>
        /\ Len(tokens.tokens) = 1
        /\ SplitAtColon(StringOf(input), UnescapedAt(StringOf(input), ":")[1],
                        tokens.tokens[1])

(***************************************************************************)
(* Phone entries under version 3: a caller adds phone entries to a contact *)
(* of version 3 that has a name, and renders it.                           *)
(***************************************************************************)

MaxTels == 2

V3Card == setName(setVersion(NewVCard, 3).v, S("Bo")).v

TelPhones == {S("8136160999"), S("(813) 616-0999 x12"), S("8675309")}
TelTypeLists ==
    {<<>>, <<S("cell")>>, <<S("text"), S("voice")>>, <<S("textphone")>>,
     <<S("fax"), S("textphone"), S("pager")>>, <<S("video")>>}

InitTel ==
    /\ vcard = V3Card
    /\ op = "new" /\ err = "" /\ valid = TRUE /\ clean = TRUE
    /\ pref = FALSE /\ calls = 0
    /\ pc = "build"
    /\ IdleTrip /\ IdleText
    /\ lastPref = NoPref /\ doc = <<>>

AddTel ==
    /\ pc = "build"
    /\ calls < MaxTels
    /\ \E phone \in TelPhones, type \in TelTypeLists, p \in BOOLEAN :
          LET r == setPhone(vcard, phone, <<>>, type, p) IN
          vcard' = r.v /\ err' = r.err /\ pref' = p
    /\ op' = "setPhone"
    /\ calls' = calls + 1
    /\ UNCHANGED <<valid, clean, pc, tripVars, lastPref, doc, textVars>>

NextTel == AddTel \/ Render

SpecTel == InitTel /\ [][NextTel]_vars

\* The TEL lines of a text.
TelLines(text) ==
    SelectSeq(PhysicalLines(text), LAMBDA l : StartsWith(l, S("TEL")))

\* The parameters of a line (the pieces of the part before its first colon
\* after the key) and the part after the colon.
ParamsOfLine(line) == Tail(SplitOn(Take(line, FirstIndex(line, ":") - 1), ";"))
ValueOfLine(line) == Drop(line, FirstIndex(line, ":"))

\* The elements of the TYPE parameter of a line, none when it has no TYPE
\* parameter or an empty one.
TypeListOf(line) ==
    LET types == SelectSeq(ParamsOfLine(line), LAMBDA p : StartsWith(p, S("TYPE=")))
    IN IF types = <<>> \/ types[1] = S("TYPE=") THEN <<>>
       ELSE SplitOn(Drop(types[1], 5), ",")

\* The TYPE list of the claim for an entry: its types through the mapping
\* table, textphone left out, and pref last when the entry is preferred.
ExpectedTypes(tel) ==
    LET Mapped(t) == IF t = S("text") THEN S("cell") ELSE t
        kept == SelectSeq(tel.type, LAMBDA t : t # S("textphone"))
    IN [i \in 1..Len(kept) |-> Mapped(kept[i])]
       \o (IF tel.pref THEN <<S("pref")>> ELSE <<>>)

\* +1-NNN-NNN-NNNN of the first ten digits d of a number.
ExpectedNumber(d) ==
    S("+1-") \o SubSeq(d, 1, 3) \o <<"-">> \o SubSeq(d, 4, 6) \o <<"-">>
    \o SubSeq(d, 7, 10)

\* C15: under version 3 the TEL line of every phone entry has no PREF
\* parameter, a TYPE list that is the entry's types through the mapping
\* table in order with pref last exactly when the entry is preferred, and
\* the number +1-NNN-NNN-NNNN of the first ten digits.
C15_TelVersion3 ==
    (op = "render" /\ out.text # None) =>
        /\ Len(TelLines(out.text[1])) = Len(vcard.tel)
        /\ \A i \in 1..Len(vcard.tel) :
              /\ \A k \in 1..Len(ParamsOfLine(TelLines(out.text[1])[i])) :
                    ~StartsWith(ParamsOfLine(TelLines(out.text[1])[i])[k], S("PREF"))
              /\ TypeListOf(TelLines(out.text[1])[i]) = ExpectedTypes(vcard.tel[i])
              /\ Len(DigitsOf(vcard.tel[i].phone)) >= 10 =>
                    ValueOfLine(TelLines(out.text[1])[i])
                      = ExpectedNumber(DigitsOf(vcard.tel[i].phone))

(***************************************************************************)
(* Instant-message entries: a caller adds an entry to a contact of version *)
(* 4 that has a name and a kind, renders the contact and decodes the text  *)
(* into a new contact.                                                     *)
(***************************************************************************)

MaxIMs == 1
MaxAddress == 3

V4Card == setKind(setName(NewVCard, S("Bo")).v, S("individual")).v

\* Addresses of letters, colons and the other reserved characters.
IMAtoms == {"a", "@", ":", ";", ","}
IMAddresses == UNION {[1..n -> IMAtoms] : n \in 1..MaxAddress}
IMProtocols == {S("sip"), S("xmpp")}

InitIM ==
    /\ vcard = V4Card
    /\ op = "new" /\ err = "" /\ valid = TRUE /\ clean = TRUE
    /\ pref = FALSE /\ calls = 0
    /\ pc = "build"
    /\ IdleTrip /\ IdleText
    /\ lastPref = NoPref /\ doc = <<>>

AddIMAddress ==
    /\ pc = "build"
    /\ calls < MaxIMs
    /\ \E imurl \in IMAddresses, protocol \in IMProtocols, p \in BOOLEAN :
          LET r == setIM(vcard, imurl, protocol, p) IN
          vcard' = r.v /\ err' = r.err /\ pref' = p
    /\ op' = "setIM"
    /\ calls' = calls + 1
    /\ UNCHANGED <<valid, clean, pc, tripVars, lastPref, doc, textVars>>

NextIM == AddIMAddress \/ Render \/ Decode

SpecIM == InitIM /\ [][NextIM]_vars

\* C16: an instant-message entry decodes from its rendered line to the same
\* protocol and the same full address, the colons of the address included.
C16_ImppDecode ==
    pc = "decoded" =>
        /\ back.err = ""
        /\ Len(back.v.impp) = Len(vcard.impp)
        /\ \A i \in 1..Len(vcard.impp) :
              /\ back.v.impp[i].protocol = vcard.impp[i].protocol
              /\ back.v.impp[i].imurl = vcard.impp[i].imurl

(***************************************************************************)
(* Date lines: a document of a BEGIN, a VERSION, a BDAY or ANNIVERSARY and *)
(* an END line is decoded into a new contact.  input holds the digits the  *)
(* date value was written from.                                            *)
(***************************************************************************)

\* How many digits fewer or more than YYYYMMDDHHMMSS a value may have.
MaxOff == 3

Stamps == {<<1989, 1, 17, 5, 0, 0>>, <<2000, 2, 29, 12, 30, 0>>,
           <<2023, 12, 31, 23, 59, 59>>}

\* YYYYMMDDHHMMSS of a stamp.
StampDigits(s) ==
    Pad(s[1], 4) \o Pad(s[2], 2) \o Pad(s[3], 2) \o Pad(s[4], 2) \o Pad(s[5], 2)
    \o Pad(s[6], 2)

\* The digits of the values: those of a stamp, cut short or followed by
\* zeros (the milliseconds of an ISO date).
DateDigits ==
    {Take(StampDigits(s) \o [i \in 1..MaxOff |-> "0"], n) :
        s \in Stamps, n \in (14 - MaxOff)..(14 + MaxOff)}

\* The separator written after digit i: none in the basic style except the
\* T, those of an ISO date in the extended style.
DateSeparator(extended, i) ==
    IF i = 8 THEN <<"T">>
    ELSE IF ~extended THEN <<>>
    ELSE IF i \in {4, 6} THEN <<"-">>
    ELSE IF i \in {10, 12} THEN <<":">>
    ELSE IF i = 14 THEN <<".">>
    ELSE <<>>

DateValue(extended, d) ==
    Flatten([i \in 1..Len(d) |->
        <<d[i]>> \o (IF i < Len(d) THEN DateSeparator(extended, i) ELSE <<>>)])
    \o <<"Z">>

DateKeys == {S("BDAY"), S("ANNIVERSARY")}

InitDate ==
    /\ \E d \in DateDigits, extended \in BOOLEAN, key \in DateKeys,
          version \in VersionLines :
          /\ input = <<d>>
          /\ doc = <<BeginLine, version, key \o <<":">> \o DateValue(extended, d),
                     EndLine>>
    /\ escaped = None /\ unescaped = None /\ formatted = None /\ unfolded = None
    /\ tokens = NoTokens
    /\ vcard = NewVCard
    /\ op = "new" /\ err = "" /\ valid = TRUE /\ clean = TRUE
    /\ pref = FALSE /\ calls = 0
    /\ pc = "build"
    /\ IdleTrip
    /\ lastPref = NoPref

NextDate == DecodeDoc

SpecDate == InitDate /\ [][NextDate]_vars

\* The instant YYYYMMDDHHMMSS of fourteen digits.
InstantOf(d) ==
    <<ToNumber(SubSeq(d, 1, 4)), ToNumber(SubSeq(d, 5, 6)), ToNumber(SubSeq(d, 7, 8)),
      ToNumber(SubSeq(d, 9, 10)), ToNumber(SubSeq(d, 11, 12)),
      ToNumber(SubSeq(d, 13, 14))>>

\* The date the contact holds under the key of the document's date line.
StoredDate ==
    IF StartsWith(doc[3], S("BDAY")) THEN vcard.bday ELSE vcard.anniversary

\* C17: a BDAY or ANNIVERSARY line is decoded exactly when its value has
\* fourteen digits, and the contact then holds the UTC instant they spell;
\* a value of fewer or more digits makes the decode fail.
C17_DateDecode ==
    pc = "decoded" =>
        /\ err = "" <=> Len(input[1]) = 14
        /\ err = "" => StoredDate = Some(InstantOf(Take(input[1], 14)))

==========================================================================
